---- MODULE Spec2Model ----
(***************************************************************************)
(* Model of the modRana Notification module (modules/mod_notification.py): *)
(* the table of work-in-progress tasks, the work-in-progress indicator      *)
(* flag and the message handler.                                            *)
(*                                                                          *)
(* Python values are tagged records: None, Str(<<chars>>), Num(n), Bool(b), *)
(* List(<<values>>), Dict(function).  A Python str is the sequence of its   *)
(* characters, so that split() and int() are computed, not assumed.         *)
(*                                                                          *)
(* Every method of the class is an operator from a machine record           *)
(*   [tasks, show, wst, text, expires, draw, now, trace, raised]            *)
(* to a machine record, so that a method calling another method is the      *)
(* composition of the two operators.  "trace" is the ordered list of calls, *)
(* signal emissions, collaborator requests and log lines of one operation,  *)
(* and "pre" the table, flag and timestamp it started from.  The operations *)
(* of Spec and SpecBanner run one at a time, each to its end; SpecThreads   *)
(* runs them on two threads, one statement at a time.                       *)
(***************************************************************************)
EXTENDS Integers, Sequences, FiniteSets, TLC

VARIABLES
    _tasks,                      \* self._tasks: name -> <<status, progress>>
    _showWorkInProgressOverlay,  \* self._showWorkInProgressOverlay
    workStartTimestamp,          \* self.workStartTimestamp
    notificationText,            \* self.notificationText
    expirationTimestamp,         \* self.expirationTimestamp, in milliseconds
    draw,                        \* self.draw
    now,                         \* time.time(), in milliseconds
    trace,                       \* what the last operation did, in order
    raised,                      \* exception that left the last operation
    pre,                         \* table, flag, timestamp and banner before the last operation
    hist,                        \* per name: fields set since its last removal
    allActivating,               \* no falsy status, None progress or overlay directive so far
    lastRequest,                 \* the latest notification request: text, time, timeout
    threads,                     \* per thread: the method it runs, where it is, its locals
    _tasksLock,                  \* self._tasksLock: the thread that owns it, or "free"
    outer,                       \* per thread: the call whose emission the current call is made from
    _threadsInProgress,          \* Search._threadsInProgress: thread id -> search id
    searches,                    \* per search thread id: where search() and the thread are
    sent                         \* what the last step of Search gave to pyotherside.send

vars == <<_tasks, _showWorkInProgressOverlay, workStartTimestamp,
          notificationText, expirationTimestamp, draw, now,
          trace, raised, pre, hist, allActivating, lastRequest,
          threads, _tasksLock, outer, _threadsInProgress, searches, sent>>

searchVars == <<_threadsInProgress, searches, sent>>

threadVars == <<threads, _tasksLock, outer, searchVars>>

----------------------------------------------------------------------------
(* Bounds *)

NumTasks == 2
MaxTime == 1

----------------------------------------------------------------------------
(* Python values *)

None == [t |-> "none"]
Str(s) == [t |-> "str", v |-> s]
Num(n) == [t |-> "num", v |-> n]
Bool(b) == [t |-> "bool", v |-> b]
List(l) == [t |-> "list", v |-> l]
Dict(d) == [t |-> "dict", v |-> d]

\* bool(value), as used by "if value:"
Truthy(x) ==
    CASE x.t = "none" -> FALSE
      [] x.t = "str"  -> x.v # <<>>
      [] x.t = "num"  -> x.v # 0
      [] x.t = "bool" -> x.v
      [] x.t = "list" -> x.v # <<>>
      [] x.t = "dict" -> DOMAIN x.v # {}

\* hash(value) succeeds: lists and dicts are unhashable
Hashable(x) == x.t \notin {"list", "dict"}

EmptyDict == [k \in {} |-> <<None, None>>]

DigitChar == <<"1", "2", "3", "4", "5", "6", "7", "8", "9">>

TaskNames == {Str(<<"t", DigitChar[i]>>) : i \in 1..NumTasks}

StatusValues == {Str(<<>>), Str(<<"a">>)}

ProgressValues == {None, Num(0)}

Unset == [t |-> "unset"]

----------------------------------------------------------------------------
(* Python str operations, on sequences of characters *)

\* str.split(sep) for a one-character separator: the pieces between the
\* separators, empty pieces included
RECURSIVE SplitFrom(_, _, _, _)
SplitFrom(s, sep, i, piece) ==
    IF i > Len(s) THEN <<piece>>
    ELSE IF s[i] = sep THEN <<piece>> \o SplitFrom(s, sep, i + 1, <<>>)
    ELSE SplitFrom(s, sep, i + 1, Append(piece, s[i]))

Split(s, sep) == SplitFrom(s, sep, 1, <<>>)

Digits == {"0", "1", "2", "3", "4", "5", "6", "7", "8", "9"}

DigitValue(c) ==
    CASE c = "0" -> 0 [] c = "1" -> 1 [] c = "2" -> 2 [] c = "3" -> 3
      [] c = "4" -> 4 [] c = "5" -> 5 [] c = "6" -> 6 [] c = "7" -> 7
      [] c = "8" -> 8 [] c = "9" -> 9

\* str.strip(), for the blank as the only whitespace character
RECURSIVE StripLeft(_)
StripLeft(s) == IF s # <<>> /\ Head(s) = " " THEN StripLeft(Tail(s)) ELSE s

RECURSIVE StripRight(_)
StripRight(s) ==
    IF s # <<>> /\ s[Len(s)] = " " THEN StripRight(SubSeq(s, 1, Len(s) - 1)) ELSE s

Strip(s) == StripLeft(StripRight(s))

HasSign(s) == s # <<>> /\ Head(s) \in {"+", "-"}

Unsigned(s) == IF HasSign(s) THEN Tail(s) ELSE s

Sign(s) == IF s # <<>> /\ Head(s) = "-" THEN -1 ELSE 1

AllDigits(s) == \A i \in 1..Len(s) : s[i] \in Digits

RECURSIVE DigitsValue(_)
DigitsValue(s) ==
    IF s = <<>> THEN 0
    ELSE 10 * DigitsValue(SubSeq(s, 1, Len(s) - 1)) + DigitValue(s[Len(s)])

\* int(s) succeeds: blanks, an optional sign, then one or more digits
IntOk(s) == LET u == Unsigned(Strip(s)) IN u # <<>> /\ AllDigits(u)

\* int(s), for IntOk(s)
IntValue(s) == Sign(Strip(s)) * DigitsValue(Unsigned(Strip(s)))

\* float(s) succeeds: blanks, an optional sign, then digits with at most one
\* decimal point and at least one digit
FloatOk(s) ==
    LET parts == Split(Unsigned(Strip(s)), ".")
    IN  /\ Len(parts) \in {1, 2}
        /\ \A i \in 1..Len(parts) : AllDigits(parts[i])
        /\ \E i \in 1..Len(parts) : parts[i] # <<>>

\* the first three decimals of a fraction, as a number of thousandths
Thousandths(frac) ==
    LET padded == frac \o <<"0", "0", "0">>
    IN  DigitsValue(SubSeq(padded, 1, 3))

\* int(float(s) * 1000), for FloatOk(s): int() truncates towards zero.  The
\* decimal arithmetic agrees with the binary one on the literals of Messages.
FloatTimes1000(s) ==
    LET parts == Split(Unsigned(Strip(s)), ".")
        frac == IF Len(parts) = 2 THEN parts[2] ELSE <<>>
    IN  Sign(Strip(s)) * (1000 * DigitsValue(parts[1]) + Thousandths(frac))

----------------------------------------------------------------------------
(* Machine records *)

Machine == [tasks |-> _tasks, show |-> _showWorkInProgressOverlay,
            wst |-> workStartTimestamp, text |-> notificationText,
            expires |-> expirationTimestamp, draw |-> draw, now |-> now,
            trace |-> <<>>, raised |-> "none"]

Record(m, kind, what, arg) == [m EXCEPT !.trace = Append(@, <<kind, what, arg>>)]

\* a Signal object being called: every subscriber gets the payload
Emit(m, signal, payload) == Record(m, "emit", signal, payload)

Raise(m, exception) == [m EXCEPT !.raised = exception]

\* dict.get(key, default)
DictGet(d, key, default) == IF key \in DOMAIN d THEN d[key] ELSE default

\* d[key] = value
DictSet(d, key, value) ==
    [k \in DOMAIN d \cup {key} |-> IF k = key THEN value ELSE d[k]]

\* del d[key], for a key that is present
DictDel(d, key) == [k \in DOMAIN d \ {key} |-> d[k]]

----------------------------------------------------------------------------
(* Notification methods *)

\* self.timeout
timeout == 5000

KwM == <<"m">>

KwMl == <<"m", "l">>

KwMs == <<"m", "s">>

KwWorkInProgressOverlay ==
    <<"w", "o", "r", "k", "I", "n", "P", "r", "o", "g", "r", "e", "s", "s",
      "O", "v", "e", "r", "l", "a", "y">>

KwCancelTask == <<"c", "a", "n", "c", "e", "l", "T", "a", "s", "k">>

KwEnable == <<"e", "n", "a", "b", "l", "e">>

KwDisable == <<"d", "i", "s", "a", "b", "l", "e">>

\* mutant: the indicator is started without testing the flag
startWorkInProgressOverlay_Unguarded(m0) ==
    LET m == Record(m0, "call", "_startWorkInProgressOverlay", None)
    IN  Emit([m EXCEPT !.show = TRUE, !.wst = Num(m.now)],
             "wipOverlayEnabled", Bool(TRUE))

_startWorkInProgressOverlay(m0) ==
    LET m == Record(m0, "call", "_startWorkInProgressOverlay", None)
    IN  IF ~m.show
        THEN Emit([m EXCEPT !.show = TRUE, !.wst = Num(m.now)],
                  "wipOverlayEnabled", Bool(TRUE))
        ELSE m

\* mutant: the stop is announced but the flag is left as it is
stopWorkInProgressOverlay_KeepsFlag(m0) ==
    LET m == Record(m0, "call", "_stopWorkInProgressOverlay", None)
    IN  Emit(m, "wipOverlayEnabled", Bool(FALSE))

_stopWorkInProgressOverlay(m0) ==
    LET m == Record(m0, "call", "_stopWorkInProgressOverlay", None)
    IN  Emit([m EXCEPT !.show = FALSE], "wipOverlayEnabled", Bool(FALSE))

\* mutant: a falsy status stops the indicator
setTaskStatus_StopsOnFalsy(m0, taskName, status) ==
    LET m1 == Record(m0, "call", "setTaskStatus", List(<<taskName, status>>))
        old == DictGet(m1.tasks, taskName, <<None, None>>)
        m2 == [m1 EXCEPT !.tasks = DictSet(@, taskName, <<status, old[2]>>)]
        m3 == Emit(m2, "tasksChanged", Dict(m2.tasks))
    IN  IF Truthy(status)
        THEN _startWorkInProgressOverlay(m3)
        ELSE _stopWorkInProgressOverlay(m3)

\* mutant: the table is rebuilt with the updated task alone
setTaskStatus_ReplacesTable(m0, taskName, status) ==
    LET m1 == Record(m0, "call", "setTaskStatus", List(<<taskName, status>>))
        old == DictGet(m1.tasks, taskName, <<None, None>>)
        m2 == [m1 EXCEPT !.tasks = DictSet(EmptyDict, taskName, <<status, old[2]>>)]
        m3 == Emit(m2, "tasksChanged", Dict(m2.tasks))
    IN  IF Truthy(status) THEN _startWorkInProgressOverlay(m3) ELSE m3

setTaskStatus(m0, taskName, status) ==
    LET m1 == Record(m0, "call", "setTaskStatus", List(<<taskName, status>>))
        old == DictGet(m1.tasks, taskName, <<None, None>>)
        m2 == [m1 EXCEPT !.tasks = DictSet(@, taskName, <<status, old[2]>>)]
        m3 == Emit(m2, "tasksChanged", Dict(m2.tasks))
    IN  IF Truthy(status) THEN _startWorkInProgressOverlay(m3) ELSE m3

\* mutant: the entry is rebuilt from the new progress alone
setTaskProgress_LosesStatus(m0, taskName, progress) ==
    LET m1 == Record(m0, "call", "setTaskProgress", List(<<taskName, progress>>))
        m2 == [m1 EXCEPT !.tasks = DictSet(@, taskName, <<None, progress>>)]
        m3 == Emit(m2, "tasksChanged", Dict(m2.tasks))
    IN  IF progress # None THEN _startWorkInProgressOverlay(m3) ELSE m3

\* mutant: "if progress:" instead of "if progress is not None:"
setTaskProgress_TruthyTest(m0, taskName, progress) ==
    LET m1 == Record(m0, "call", "setTaskProgress", List(<<taskName, progress>>))
        old == DictGet(m1.tasks, taskName, <<None, None>>)
        m2 == [m1 EXCEPT !.tasks = DictSet(@, taskName, <<old[1], progress>>)]
        m3 == Emit(m2, "tasksChanged", Dict(m2.tasks))
    IN  IF Truthy(progress) THEN _startWorkInProgressOverlay(m3) ELSE m3

setTaskProgress(m0, taskName, progress) ==
    LET m1 == Record(m0, "call", "setTaskProgress", List(<<taskName, progress>>))
        old == DictGet(m1.tasks, taskName, <<None, None>>)
        m2 == [m1 EXCEPT !.tasks = DictSet(@, taskName, <<old[1], progress>>)]
        m3 == Emit(m2, "tasksChanged", Dict(m2.tasks))
    IN  IF progress # None THEN _startWorkInProgressOverlay(m3) ELSE m3

\* mutant: the change is announced but the entry is not deleted
removeTask_KeepsEntry(m0, taskName) ==
    LET m1 == Record(m0, "call", "removeTask", taskName)
        m2 == IF taskName \in DOMAIN m1.tasks
              THEN Emit(m1, "tasksChanged", Dict(m1.tasks))
              ELSE Record(m1, "log", "error", taskName)
    IN  IF ~Hashable(taskName)
        THEN Raise(m1, "TypeError")
        ELSE IF DOMAIN m2.tasks = {}
             THEN _stopWorkInProgressOverlay(m2)
             ELSE m2

\* mutant: the indicator is stopped without testing the table
removeTask_AlwaysStops(m0, taskName) ==
    LET m1 == Record(m0, "call", "removeTask", taskName)
        deleted == Emit([m1 EXCEPT !.tasks = DictDel(@, taskName)],
                        "tasksChanged", Dict(DictDel(m1.tasks, taskName)))
        m2 == IF taskName \in DOMAIN m1.tasks
              THEN deleted
              ELSE Record(m1, "log", "error", taskName)
    IN  IF ~Hashable(taskName)
        THEN Raise(m1, "TypeError")
        ELSE _stopWorkInProgressOverlay(m2)

\* mutant: tasksChanged is emitted before the entry is deleted
removeTask_EmitsBeforeDelete(m0, taskName) ==
    LET m1 == Record(m0, "call", "removeTask", taskName)
        deleted == [Emit(m1, "tasksChanged", Dict(m1.tasks))
                       EXCEPT !.tasks = DictDel(@, taskName)]
        m2 == IF taskName \in DOMAIN m1.tasks
              THEN deleted
              ELSE Record(m1, "log", "error", taskName)
    IN  IF ~Hashable(taskName)
        THEN Raise(m1, "TypeError")
        ELSE IF DOMAIN m2.tasks = {}
             THEN _stopWorkInProgressOverlay(m2)
             ELSE m2

\* mutant: the indicator is never stopped
removeTask_NeverStops(m0, taskName) ==
    LET m1 == Record(m0, "call", "removeTask", taskName)
        deleted == Emit([m1 EXCEPT !.tasks = DictDel(@, taskName)],
                        "tasksChanged", Dict(DictDel(m1.tasks, taskName)))
        m2 == IF taskName \in DOMAIN m1.tasks
              THEN deleted
              ELSE Record(m1, "log", "error", taskName)
    IN  IF ~Hashable(taskName)
        THEN Raise(m1, "TypeError")
        ELSE m2

\* mutant: the status of the task is dropped, its progress is kept
removeTask_KeepsProgress(m0, taskName) ==
    LET m1 == Record(m0, "call", "removeTask", taskName)
        blanked == DictSet(m1.tasks, taskName,
                           <<None, DictGet(m1.tasks, taskName, <<None, None>>)[2]>>)
        deleted == Emit([m1 EXCEPT !.tasks = blanked],
                        "tasksChanged", Dict(blanked))
        m2 == IF taskName \in DOMAIN m1.tasks
              THEN deleted
              ELSE Record(m1, "log", "error", taskName)
    IN  IF ~Hashable(taskName)
        THEN Raise(m1, "TypeError")
        ELSE IF DOMAIN m2.tasks = {}
             THEN _stopWorkInProgressOverlay(m2)
             ELSE m2

removeTask(m0, taskName) ==
    LET m1 == Record(m0, "call", "removeTask", taskName)
        deleted == Emit([m1 EXCEPT !.tasks = DictDel(@, taskName)],
                        "tasksChanged", Dict(DictDel(m1.tasks, taskName)))
        m2 == IF taskName \in DOMAIN m1.tasks
              THEN deleted
              ELSE Record(m1, "log", "error", taskName)
    IN  IF ~Hashable(taskName)
        THEN Raise(m1, "TypeError")
        ELSE IF DOMAIN m2.tasks = {}
             THEN _stopWorkInProgressOverlay(m2)
             ELSE m2

\* mutant: the thread is cancelled but the task stays tracked
cancelTask_OnlyCancelsThread(m0, taskName) ==
    LET m1 == Record(m0, "call", "cancelTask", taskName)
        m2 == Record(m1, "ext", "cancel_thread", taskName)
    IN  Record(m2, "log", "info", taskName)

\* mutant: the thread manager is asked only for a task that is tracked
cancelTask_OnlyIfTracked(m0, taskName) ==
    LET m1 == Record(m0, "call", "cancelTask", taskName)
        m2 == IF taskName \in DOMAIN m1.tasks
              THEN Record(m1, "ext", "cancel_thread", taskName)
              ELSE m1
        m3 == removeTask(m2, taskName)
    IN  IF m3.raised # "none" THEN m3 ELSE Record(m3, "log", "info", taskName)

cancelTask(m0, taskName) ==
    LET m1 == Record(m0, "call", "cancelTask", taskName)
        m2 == Record(m1, "ext", "cancel_thread", taskName)
        m3 == removeTask(m2, taskName)
    IN  IF m3.raised # "none" THEN m3 ELSE Record(m3, "log", "info", taskName)

\* modrana.notify(text, msTimeout): the request to the application
notify(m, messageText, msTimeout) ==
    Record(m, "ext", "notify", List(<<messageText, Num(msTimeout)>>))

\* mutant: the first test is an "if" of its own, so that the chain of the
\* other tests, with its "else", also runs after a message-list notification
handleMessage_BrokenChain(m0, message, messageType, args) ==
    LET m1 == Record(m0, "call", "handleMessage", List(<<message, messageType, args>>))
        listNotification ==
            IF Truthy(args)
            THEN IF Len(args.v) >= 2
                 THEN IF FloatOk(args.v[2].v)
                      THEN notify(m1, args.v[1], FloatTimes1000(args.v[2].v))
                      ELSE Raise(m1, "ValueError")
                 ELSE notify(m1, args.v[1], timeout)
            ELSE m1
        m2 == IF messageType = Str(KwMl) /\ message = Str(KwM)
              THEN listNotification
              ELSE m1
        enabled ==
            IF args.v[1] = Str(KwEnable) THEN _startWorkInProgressOverlay(m2) ELSE m2
        overlayDirective ==
            IF Truthy(args)
            THEN IF args.v[1] = Str(KwDisable)
                 THEN _stopWorkInProgressOverlay(enabled)
                 ELSE enabled
            ELSE m2
        cancelDirective == IF Truthy(args) THEN cancelTask(m2, args) ELSE m2
        parameterList == Split(message.v, "#")
        first == notify(m2, Str(parameterList[1]), timeout)
        freeText ==
            IF Len(parameterList) >= 2
            THEN IF Len(parameterList) = 2
                 THEN IF IntOk(parameterList[2])
                      THEN notify(first, Str(parameterList[1]),
                                  IntValue(parameterList[2]) * 1000)
                      ELSE notify(Record(first, "log", "exception", Str(parameterList[2])),
                                  Str(parameterList[1]), timeout)
                 ELSE notify(first, Str(parameterList[1]), timeout)
            ELSE Record(m2, "log", "error", message)
    IN  IF m2.raised # "none"
        THEN m2
        ELSE IF messageType = Str(KwMl) /\ message = Str(KwWorkInProgressOverlay)
        THEN overlayDirective
        ELSE IF Truthy(messageType) /\ message = Str(KwCancelTask)
        THEN cancelDirective
        ELSE freeText

handleMessage(m0, message, messageType, args) ==
    LET m1 == Record(m0, "call", "handleMessage", List(<<message, messageType, args>>))
        \* if messageType == 'ml' and message == 'm'
        listNotification ==
            IF Truthy(args)
            THEN IF Len(args.v) >= 2
                 THEN IF FloatOk(args.v[2].v)
                      THEN notify(m1, args.v[1], FloatTimes1000(args.v[2].v))
                      ELSE Raise(m1, "ValueError")
                 ELSE notify(m1, args.v[1], timeout)
            ELSE m1
        \* elif messageType == 'ml' and message == 'workInProgressOverlay'
        enabled ==
            IF args.v[1] = Str(KwEnable) THEN _startWorkInProgressOverlay(m1) ELSE m1
        overlayDirective ==
            IF Truthy(args)
            THEN IF args.v[1] = Str(KwDisable)
                 THEN _stopWorkInProgressOverlay(enabled)
                 ELSE enabled
            ELSE m1
        \* elif messageType and message == "cancelTask"
        cancelDirective == IF Truthy(args) THEN cancelTask(m1, args) ELSE m1
        \* else
        parameterList == Split(message.v, "#")
        first == notify(m1, Str(parameterList[1]), timeout)
        freeText ==
            IF Len(parameterList) >= 2
            THEN IF Len(parameterList) = 2
                 THEN IF IntOk(parameterList[2])
                      THEN notify(first, Str(parameterList[1]),
                                  IntValue(parameterList[2]) * 1000)
                      ELSE notify(Record(first, "log", "exception", Str(parameterList[2])),
                                  Str(parameterList[1]), timeout)
                 ELSE notify(first, Str(parameterList[1]), timeout)
            ELSE Record(m1, "log", "error", message)
    IN  IF messageType = Str(KwMl) /\ message = Str(KwM)
        THEN listNotification
        ELSE IF messageType = Str(KwMl) /\ message = Str(KwWorkInProgressOverlay)
        THEN overlayDirective
        ELSE IF Truthy(messageType) /\ message = Str(KwCancelTask)
        THEN cancelDirective
        ELSE freeText

----------------------------------------------------------------------------
(* The notification banner and the drawing of the overlays *)

\* mutant: a request never shortens the time the banner stays
startCustomNotificationCB_KeepsLaterExpiry(m0, message, ms_timeout) ==
    LET m == Record(m0, "call", "_startCustomNotificationCB",
                    List(<<message, Num(ms_timeout)>>))
        expires == IF m.now + ms_timeout > m.expires
                   THEN m.now + ms_timeout ELSE m.expires
    IN  Record([m EXCEPT !.text = message, !.expires = expires, !.draw = TRUE],
               "ext", "set", Str(<<"needRedraw">>))

\* the subscriber of modrana.notificationTriggered.  The clock is in
\* milliseconds, so time.time() + ms_timeout/1000.0 is now + ms_timeout;
\* self.position is 'middle' before and after.
_startCustomNotificationCB(m0, message, ms_timeout) ==
    LET m == Record(m0, "call", "_startCustomNotificationCB",
                    List(<<message, Num(ms_timeout)>>))
    IN  Record([m EXCEPT !.text = message,
                         !.expires = m.now + ms_timeout,
                         !.draw = TRUE],
               "ext", "set", Str(<<"needRedraw">>))

\* what self.m.get('menu'), self.m.get('projection'), self.get('viewport')
\* and self.m.get('clickHandler') give during one draw call: a module is
\* there or not, the viewport is None or (sx, sy, w, h)
Env(menus, proj, viewport, click) ==
    [t |-> "env", menus |-> menus, proj |-> proj, viewport |-> viewport,
     click |-> click]

NumList(s) == List([i \in 1..Len(s) |-> Num(s[i])])

Viewport == NumList(<<0, 0, 800, 480>>)

Envs ==
    {Env(TRUE, TRUE, Viewport, TRUE),
     Env(FALSE, TRUE, Viewport, TRUE),
     Env(TRUE, FALSE, Viewport, TRUE),
     Env(TRUE, TRUE, None, TRUE),
     Env(TRUE, TRUE, Viewport, FALSE)}

Min(a, b) == IF a <= b THEN a ELSE b

\* mutant: the banner is gone at the instant of its expiry
drawNotification_StrictlyBefore(m0, env) ==
    LET m1 == Record(m0, "call", "_drawNotification", env)
        m2 == Record(m1, "ext", "screenPos", None)
        m3 == Record(m2, "ext", "measureWrappedText", m2.text)
        m4 == Record(m3, "ext", "rectangle", None)
        m5 == Record(m4, "ext", "fill", None)
    IN  IF m1.now < m1.expires
        THEN IF ~env.proj \/ ~env.menus \/ ~Truthy(env.viewport)
             THEN m1
             ELSE Record(m5, "ext", "showWrappedText", m5.text)
        ELSE [m1 EXCEPT !.draw = FALSE]

\* the size of the banner rectangle comes from menus.measureWrappedText and
\* is not computed here; the colour and line width settings are not recorded
_drawNotification(m0, env) ==
    LET m1 == Record(m0, "call", "_drawNotification", env)
        m2 == Record(m1, "ext", "screenPos", None)
        m3 == Record(m2, "ext", "measureWrappedText", m2.text)
        m4 == Record(m3, "ext", "rectangle", None)
        m5 == Record(m4, "ext", "fill", None)
    IN  IF m1.now <= m1.expires
        THEN IF ~env.proj \/ ~env.menus \/ ~Truthy(env.viewport)
             THEN m1
             ELSE Record(m5, "ext", "showWrappedText", m5.text)
        ELSE [m1 EXCEPT !.draw = FALSE]

CancelTaskMessage ==
    <<"m", "s", ":", "n", "o", "t", "i", "f", "i", "c", "a", "t", "i", "o",
      "n", ":">> \o KwCancelTask \o <<":">>

CancelOperationMessage ==
    <<"o", "n", "l", "i", "n", "e", "S", "e", "r", "v", "i", "c", "e", "s",
      ":", "c", "a", "n", "c", "e", "l", "O", "p", "e", "r", "a", "t", "i",
      "o", "n">>

\* mutant: the button is drawn and registered without testing the click
\* handler
drawCancelButton_WithoutClick(m0, env, coords, taskName) ==
    LET m1 == Record(m0, "call", "drawCancelButton", taskName)
        m2 == Record(m1, "ext", "drawButton", coords)
        message == IF Truthy(taskName)
                   THEN Str(CancelTaskMessage \o taskName.v)
                   ELSE Str(CancelOperationMessage)
    IN  IF env.menus
        THEN Record(m2, "ext", "registerXYWH", List(<<message, coords>>))
        ELSE m1

\* mutant: the message of the hit-region does not name the task
drawCancelButton_MessageWithoutName(m0, env, coords, taskName) ==
    LET m1 == Record(m0, "call", "drawCancelButton", taskName)
        m2 == Record(m1, "ext", "drawButton", coords)
        message == Str(CancelTaskMessage)
    IN  IF env.menus /\ env.click
        THEN Record(m2, "ext", "registerXYWH", List(<<message, coords>>))
        ELSE m1

\* coords is always given by drawWorkInProgressOverlay
drawCancelButton(m0, env, coords, taskName) ==
    LET m1 == Record(m0, "call", "drawCancelButton", taskName)
        m2 == Record(m1, "ext", "drawButton", coords)
        message == IF Truthy(taskName)
                   THEN Str(CancelTaskMessage \o taskName.v)
                   ELSE Str(CancelOperationMessage)
    IN  IF env.menus /\ env.click
        THEN Record(m2, "ext", "registerXYWH", List(<<message, coords>>))
        ELSE m1

\* the geometry of the table, from viewport = (sx, sy, w, h); the divisions
\* are exact for the viewport used here
ItemHeight(viewport) == (viewport.v[4].v * 2) \div 10

Cbdx(viewport) == Min(viewport.v[3].v, viewport.v[4].v) \div 5

Border(viewport) == Min(viewport.v[3].v \div 20, viewport.v[4].v \div 20)

\* mutant: every cancel button is put at the top of the viewport
drawTaskItem_SameOffset(m0, env, taskName, taskIndex) ==
    LET vp == env.viewport
        sx == vp.v[1].v
        sy == vp.v[2].v
        w == vp.v[3].v
        cbx1 == (sx + w) - Cbdx(vp)
        cby1 == sy
        m1 == drawCancelButton(m0, env,
                               NumList(<<cbx1, cby1, Cbdx(vp), Cbdx(vp)>>),
                               taskName)
        status == m1.tasks[taskName][1]
    IN  Record(m1, "ext", "showText",
               List(<<status, Num(0 + Border(vp)),
                      Num(0 + Border(vp) + ItemHeight(vp) * taskIndex),
                      Num(w - 2 * Border(vp) - Cbdx(vp))>>))

\* the body of the loop over the table: the cancel button and the status
\* text of one task
drawTaskItem(m0, env, taskName, taskIndex) ==
    LET vp == env.viewport
        sx == vp.v[1].v
        sy == vp.v[2].v
        w == vp.v[3].v
        cbx1 == (sx + w) - Cbdx(vp)
        cby1 == sy + Cbdx(vp) * taskIndex
        m1 == drawCancelButton(m0, env,
                               NumList(<<cbx1, cby1, Cbdx(vp), Cbdx(vp)>>),
                               taskName)
        status == m1.tasks[taskName][1]
    IN  Record(m1, "ext", "showText",
               List(<<status, Num(0 + Border(vp)),
                      Num(0 + Border(vp) + ItemHeight(vp) * taskIndex),
                      Num(w - 2 * Border(vp) - Cbdx(vp))>>))

\* the loop over six.iteritems(self._tasks), in the order the dict gives
RECURSIVE drawTaskItems(_, _, _, _)
drawTaskItems(m, env, order, taskIndex) ==
    IF order = <<>>
    THEN m
    ELSE drawTaskItems(drawTaskItem(m, env, Head(order), taskIndex),
                       env, Tail(order), taskIndex + 1)

\* the background band: one item height per task
drawBand(m, env) ==
    LET taskCount == Cardinality(DOMAIN m.tasks)
        w == env.viewport.v[3].v
        m1 == Record(m, "ext", "rectangle",
                     NumList(<<0, 0, w, ItemHeight(env.viewport) * taskCount>>))
    IN  Record(m1, "ext", "fill", None)

\* the test made under the lock before anything is drawn
TableDrawable(m, env) ==
    DOMAIN m.tasks # {} /\ env.proj /\ Truthy(env.viewport) /\ env.menus

drawWorkInProgressOverlay(m0, env, order) ==
    LET m1 == Record(m0, "call", "drawWorkInProgressOverlay", env)
    IN  IF TableDrawable(m1, env)
        THEN drawTaskItems(drawBand(m1, env), env, order, 0)
        ELSE m1

\* mutant: the table is drawn whatever the indicator flag says
drawMasterOverlay_IgnoresFlag(m0, env, order) ==
    LET m1 == Record(m0, "call", "drawMasterOverlay", env)
        m2 == _drawNotification(m1, env)
    IN  drawWorkInProgressOverlay(m2, env, order)

drawMasterOverlay(m0, env, order) ==
    LET m1 == Record(m0, "call", "drawMasterOverlay", env)
        m2 == _drawNotification(m1, env)
    IN  IF m2.show
        THEN drawWorkInProgressOverlay(m2, env, order)
        ELSE m2

----------------------------------------------------------------------------
(* History of the completed operations, per task name *)

NoHist == [status |-> Unset, progress |-> Unset, created |-> FALSE]

HistSetStatus(h, n, s) == [h EXCEPT ![n].status = s, ![n].created = TRUE]

HistSetProgress(h, n, p) == [h EXCEPT ![n].progress = p, ![n].created = TRUE]

HistRemove(h, n) == IF n \in DOMAIN h THEN [h EXCEPT ![n] = NoHist] ELSE h

----------------------------------------------------------------------------
(* State machine *)

\* the threads that call into the module at the same time: the thread
\* manager's callbacks and the drawing of the GUI
Threads == {"thread1", "thread2"}

\* the search threads that the thread manager can start
MaxSearches == 2

ThreadIds == {Str(<<"s", DigitChar[i]>>) : i \in 1..MaxSearches}

\* a search that has not been asked for
NoSearch == [call |-> "none", searchId |-> None, thread |-> "none"]

\* Search.__init__, before any search
SearchInit ==
    /\ _threadsInProgress = EmptyDict
    /\ searches = [id \in ThreadIds |-> NoSearch]
    /\ sent = None

\* a thread that is not inside the module
Idle ==
    [op |-> "none", name |-> None, value |-> None, env |-> None, pc |-> "done",
     old |-> <<None, None>>, count |-> 0, seen |-> <<>>, snap |-> EmptyDict]

Init ==
    /\ _tasks = EmptyDict
    /\ _showWorkInProgressOverlay = FALSE
    /\ workStartTimestamp = None
    /\ notificationText = Str(<<>>)
    /\ expirationTimestamp = 0
    /\ draw = FALSE
    /\ now = 0
    /\ trace = <<>>
    /\ raised = "none"
    /\ pre = [tasks |-> EmptyDict, show |-> FALSE, wst |-> None,
              text |-> Str(<<>>), expires |-> 0]
    /\ hist = [n \in TaskNames |-> NoHist]
    /\ allActivating = TRUE
    /\ lastRequest = None
    /\ threads = [t \in Threads |-> Idle]
    /\ _tasksLock = "free"
    /\ outer = [t \in Threads |-> None]
    /\ SearchInit

\* the machine record m is what one operation, run to its end, leaves behind
Apply(m) ==
    /\ _tasks' = m.tasks
    /\ _showWorkInProgressOverlay' = m.show
    /\ workStartTimestamp' = m.wst
    /\ notificationText' = m.text
    /\ expirationTimestamp' = m.expires
    /\ draw' = m.draw
    /\ UNCHANGED threadVars
    /\ trace' = m.trace
    /\ raised' = m.raised
    /\ pre' = [tasks |-> _tasks, show |-> _showWorkInProgressOverlay,
               wst |-> workStartTimestamp, text |-> notificationText,
               expires |-> expirationTimestamp]
    /\ UNCHANGED now

Commit(m) ==
    /\ trace = <<>>
    /\ Apply(m)

SetTaskStatus ==
    \E n \in TaskNames, s \in StatusValues :
        /\ Commit(setTaskStatus(Machine, n, s))
        /\ hist' = HistSetStatus(hist, n, s)
        /\ allActivating' = (allActivating /\ Truthy(s))
        /\ UNCHANGED lastRequest

SetTaskProgress ==
    \E n \in TaskNames, p \in ProgressValues :
        /\ Commit(setTaskProgress(Machine, n, p))
        /\ hist' = HistSetProgress(hist, n, p)
        /\ allActivating' = (allActivating /\ p # None)
        /\ UNCHANGED lastRequest

RemoveTask ==
    \E n \in TaskNames :
        /\ Commit(removeTask(Machine, n))
        /\ hist' = HistRemove(hist, n)
        /\ UNCHANGED <<allActivating, lastRequest>>

CancelTask ==
    \E n \in TaskNames :
        /\ Commit(cancelTask(Machine, n))
        /\ hist' = HistRemove(hist, n)
        /\ UNCHANGED <<allActivating, lastRequest>>

\* the messages sent to the module: <<message, messageType, args>>.  The
\* arguments of an 'ml' message are a list of strings, those of an 'ms'
\* message are one string, a message without a type has none.
TextHi == <<"h", "i">>

Messages ==
    {<<Str(KwM), Str(KwMl), List(<<>>)>>,
     <<Str(KwM), Str(KwMl), List(<<Str(TextHi)>>)>>,
     <<Str(KwM), Str(KwMl), List(<<Str(TextHi), Str(<<"2">>)>>)>>,
     <<Str(KwM), Str(KwMl), List(<<Str(TextHi), Str(<<"0", ".", "5">>)>>)>>,
     <<Str(KwM), Str(KwMl), List(<<Str(TextHi), Str(<<"a", "b", "c">>)>>)>>,
     <<Str(KwM), Str(KwMs), Str(TextHi)>>,
     <<Str(KwWorkInProgressOverlay), Str(KwMl), List(<<>>)>>,
     <<Str(KwWorkInProgressOverlay), Str(KwMl), List(<<Str(KwEnable)>>)>>,
     <<Str(KwWorkInProgressOverlay), Str(KwMl), List(<<Str(KwDisable)>>)>>,
     <<Str(KwWorkInProgressOverlay), Str(KwMs), Str(KwEnable)>>,
     <<Str(KwCancelTask), Str(KwMs), Str(<<>>)>>,
     <<Str(KwCancelTask), Str(KwMl), List(<<>>)>>,
     <<Str(KwCancelTask), None, None>>,
     <<Str(TextHi), None, None>>,
     <<Str(TextHi \o <<"#">>), None, None>>,
     <<Str(TextHi \o <<"#", "2">>), None, None>>,
     <<Str(TextHi \o <<"#", "2", "#", "x">>), None, None>>,
     <<Str(TextHi \o <<"#", "a", "b", "c">>), None, None>>}
    \cup {<<Str(KwCancelTask), Str(KwMs), n>> : n \in TaskNames}
    \cup {<<Str(KwCancelTask), Str(KwMl), List(<<n>>)>> : n \in TaskNames}

\* the name whose removal the operation has completed, if any
Removed(m) ==
    {m.trace[i][3] : i \in {j \in 1..Len(m.trace) :
         /\ m.raised = "none"
         /\ m.trace[j][1] = "call"
         /\ m.trace[j][2] = "removeTask"}}

\* the operation has handled a workInProgressOverlay enable or disable
Directive(m) ==
    /\ Len(m.trace) >= 2
    /\ m.trace[1][2] = "handleMessage"
    /\ m.trace[2][2] \in {"_startWorkInProgressOverlay", "_stopWorkInProgressOverlay"}

HandleMessage ==
    \E msg \in Messages :
        LET m == handleMessage(Machine, msg[1], msg[2], msg[3])
        IN  /\ Commit(m)
            /\ hist' = [n \in TaskNames |->
                           IF n \in Removed(m) THEN NoHist ELSE hist[n]]
            /\ allActivating' = (allActivating /\ ~Directive(m))
            /\ UNCHANGED lastRequest

\* the record of the last operation is dropped before the next one starts
Forget ==
    /\ trace # <<>>
    /\ trace' = <<>>
    /\ raised' = "none"
    /\ pre' = [tasks |-> _tasks, show |-> _showWorkInProgressOverlay,
               wst |-> workStartTimestamp, text |-> notificationText,
               expires |-> expirationTimestamp]
    /\ UNCHANGED <<_tasks, _showWorkInProgressOverlay, workStartTimestamp,
                   notificationText, expirationTimestamp, draw,
                   now, hist, allActivating, lastRequest, threadVars>>

Tick ==
    /\ now < MaxTime
    /\ now' = now + 1
    /\ UNCHANGED <<_tasks, _showWorkInProgressOverlay, workStartTimestamp,
                   notificationText, expirationTimestamp, draw,
                   trace, raised, pre, hist, allActivating, lastRequest,
                   threadVars>>

\* the orders in which a dict with the given keys can be iterated
Orders(keys) ==
    {o \in [1..Cardinality(keys) -> keys] :
        \A i, j \in DOMAIN o : o[i] = o[j] => i = j}

\* the menu module asks for the overlays to be drawn
DrawMasterOverlay ==
    \E env \in Envs, order \in Orders(DOMAIN _tasks) :
        /\ Commit(drawMasterOverlay(Machine, env, order))
        /\ UNCHANGED <<hist, allActivating, lastRequest>>

\* the arguments of the entries of the given kind and name made by the last
\* operation, in order
RECURSIVE ArgsFrom(_, _, _)
ArgsFrom(kind, what, i) ==
    IF i > Len(trace) THEN <<>>
    ELSE IF trace[i][1] = kind /\ trace[i][2] = what
         THEN <<trace[i][3]>> \o ArgsFrom(kind, what, i + 1)
         ELSE ArgsFrom(kind, what, i + 1)

\* the dispatch of a message string "type:module:message:args" of type
\* 'ms' to the module it names: <<message, messageType, args>>
ParseMessage(s) ==
    LET pieces == Split(s, ":")
    IN  <<Str(pieces[3]), Str(pieces[1]), Str(pieces[4])>>

\* one of the hit-regions registered by the draw call that has just been
\* made is activated: its message is sent to the module
ActivateHitRegion ==
    /\ trace # <<>>
    /\ trace[1][2] = "drawMasterOverlay"
    /\ \E i \in 1..Len(ArgsFrom("ext", "registerXYWH", 1)) :
           LET taskName == ArgsFrom("call", "drawCancelButton", 1)[i]
               message == ArgsFrom("ext", "registerXYWH", 1)[i].v[1]
               parsed == ParseMessage(message.v)
               m0 == Record(Machine, "call", "activate",
                            List(<<taskName, message>>))
               m == handleMessage(m0, parsed[1], parsed[2], parsed[3])
           IN  /\ Apply(m)
               /\ hist' = [n \in TaskNames |->
                              IF n \in Removed(m) THEN NoHist ELSE hist[n]]
               /\ UNCHANGED <<allActivating, lastRequest>>

Next ==
    \/ SetTaskStatus
    \/ SetTaskProgress
    \/ RemoveTask
    \/ CancelTask
    \/ HandleMessage
    \/ Forget
    \/ Tick

Spec == Init /\ [][Next]_vars

\* the task of the table that the operation just completed was to remove
JustRemoved ==
    {n \in DOMAIN pre.tasks :
        /\ trace # <<>>
        /\ raised = "none"
        /\ trace[1] \in {<<"call", "removeTask", n>>, <<"call", "cancelTask", n>>}}

\* what is noted of a late event: the name and the entry that was removed
LateEvent(n) == List(<<n, pre.tasks[n][1], pre.tasks[n][2]>>)

\* threadMgr.threadStatusChanged for a thread whose task has just been
\* removed
LateStatusEvent ==
    \E n \in JustRemoved, s \in StatusValues :
        /\ Apply(setTaskStatus(Record(Machine, "call", "lateEvent", LateEvent(n)),
                               n, s))
        /\ hist' = HistSetStatus(hist, n, s)
        /\ allActivating' = (allActivating /\ Truthy(s))
        /\ UNCHANGED lastRequest

\* threadMgr.threadProgressChanged for a thread whose task has just been
\* removed
LateProgressEvent ==
    \E n \in JustRemoved, p \in ProgressValues :
        /\ Apply(setTaskProgress(Record(Machine, "call", "lateEvent", LateEvent(n)),
                                 n, p))
        /\ hist' = HistSetProgress(hist, n, p)
        /\ allActivating' = (allActivating /\ p # None)
        /\ UNCHANGED lastRequest

\* the four operations on the task table, one at a time, without any
\* workInProgressOverlay directive
NextTasks ==
    \/ SetTaskStatus
    \/ SetTaskProgress
    \/ RemoveTask
    \/ CancelTask
    \/ LateStatusEvent
    \/ LateProgressEvent
    \/ Forget

SpecTasks == Init /\ [][NextTasks]_vars

\* the drawing of the overlays and the activation of their hit-regions,
\* between status events, removals and messages
NextDraw ==
    \/ SetTaskStatus
    \/ RemoveTask
    \/ HandleMessage
    \/ DrawMasterOverlay
    \/ ActivateHitRegion
    \/ Forget

SpecDraw == Init /\ [][NextDraw]_vars

----------------------------------------------------------------------------
(* The banner alone: notification requests and draw calls over time, with   *)
(* modrana.notificationTriggered connected to _startCustomNotificationCB    *)

MaxSeconds == 2

\* the instants at which something happens: one millisecond before, at and
\* after each full second
Instants ==
    {t \in {1000 * k + d : k \in 0..MaxSeconds, d \in {-1, 0, 1}} : t >= 0}

Timeouts == {1000 * k : k \in 1..MaxSeconds}

TextYo == <<"y", "o">>

BannerTexts == {Str(TextHi), Str(TextYo)}

Request(text, at, ms) == [t |-> "request", text |-> text, at |-> at, ms |-> ms]

StartCustomNotification ==
    \E message \in BannerTexts, ms_timeout \in Timeouts :
        /\ Commit(_startCustomNotificationCB(Machine, message, ms_timeout))
        /\ lastRequest' = Request(message, now, ms_timeout)
        /\ UNCHANGED <<hist, allActivating>>

\* time passes between two operations
BannerTick ==
    /\ trace = <<>>
    /\ \E t \in Instants : t > now /\ now' = t
    /\ UNCHANGED <<_tasks, _showWorkInProgressOverlay, workStartTimestamp,
                   notificationText, expirationTimestamp, draw,
                   trace, raised, pre, hist, allActivating, lastRequest,
                   threadVars>>

NextBanner ==
    \/ StartCustomNotification
    \/ DrawMasterOverlay
    \/ Forget
    \/ BannerTick

SpecBanner == Init /\ [][NextBanner]_vars

----------------------------------------------------------------------------
(* Two threads inside the module at the same time, one statement at a time. *)
(* Each thread makes one call; "pc" is the statement it executes next.      *)

\* what the steps of a call leave alone
seqVars == <<notificationText, expirationTimestamp, now, trace, raised, pre,
             hist, allActivating, lastRequest, outer, searchVars>>

ThreadEnvs == {Env(TRUE, TRUE, Viewport, TRUE), Env(TRUE, TRUE, None, TRUE)}

\* the calls a thread can make
ThreadCalls ==
    {[Idle EXCEPT !.op = "setTaskStatus", !.name = n, !.value = v,
                  !.pc = "set_enter"] : n \in TaskNames, v \in StatusValues}
    \cup {[Idle EXCEPT !.op = "setTaskProgress", !.name = n, !.value = v,
                       !.pc = "set_enter"] : n \in TaskNames, v \in ProgressValues}
    \cup {[Idle EXCEPT !.op = "removeTask", !.name = n, !.pc = "rm_enter"] :
              n \in TaskNames}
    \cup {[Idle EXCEPT !.op = "cancelTask", !.name = n, !.pc = "cancel"] :
              n \in TaskNames}
    \cup {[Idle EXCEPT !.op = "drawMasterOverlay", !.env = e,
                       !.pc = "dw_banner"] : e \in ThreadEnvs}

\* the module after some tasks have reported the status "a" at time 0, and
\* one call on its way on each thread
InitThreads ==
    /\ \E names \in SUBSET TaskNames :
           /\ _tasks = [n \in names |-> <<Str(<<"a">>), None>>]
           /\ _showWorkInProgressOverlay = (names # {})
           /\ workStartTimestamp = IF names # {} THEN Num(0) ELSE None
    /\ notificationText = Str(<<>>)
    /\ expirationTimestamp = 0
    /\ draw = FALSE
    /\ now = 0
    /\ trace = <<>>
    /\ raised = "none"
    /\ pre = [tasks |-> EmptyDict, show |-> FALSE, wst |-> None,
              text |-> Str(<<>>), expires |-> 0]
    /\ hist = [n \in TaskNames |-> NoHist]
    /\ allActivating = TRUE
    /\ lastRequest = None
    /\ threads \in [Threads -> ThreadCalls]
    /\ _tasksLock = "free"
    /\ outer = [t \in Threads |-> None]
    /\ SearchInit

\* mutant: a plain Lock, which its owner cannot take again
LockAvailable_NotReentrant(t) ==
    _tasksLock = "free"

\* mutant: the lock makes no thread wait
LockAvailable_Always(t) ==
    TRUE

\* "with self._tasksLock:" can be entered by thread t: an RLock is free or
\* owned by the thread that asks for it
LockAvailable(t) ==
    _tasksLock \in {"free", t}

Range(f) == {f[i] : i \in DOMAIN f}

\* the owner of the RLock after thread t has left a with block: t itself
\* when the call is made from an emission that is inside a with block
Released(t) ==
    IF outer[t].t = "frame" /\ outer[t].frame.pc = "rm_emit" THEN t ELSE "free"

\* thread t goes on to the statement pc
Goto(t, pc) == threads' = [threads EXCEPT ![t].pc = pc]

\* setTaskStatus, setTaskProgress: the lock is taken and the entry is read
SetEnter(t) ==
    /\ threads[t].pc = "set_enter"
    /\ LockAvailable(t)
    /\ _tasksLock' = t
    /\ threads' = [threads EXCEPT
           ![t].old = DictGet(_tasks, threads[t].name, <<None, None>>),
           ![t].pc = "set_write"]
    /\ UNCHANGED <<_tasks, _showWorkInProgressOverlay, workStartTimestamp,
                   draw, seqVars>>

\* the entry is replaced and the lock is given back
SetWrite(t) ==
    /\ threads[t].pc = "set_write"
    /\ _tasks' = DictSet(_tasks, threads[t].name,
                         IF threads[t].op = "setTaskStatus"
                         THEN <<threads[t].value, threads[t].old[2]>>
                         ELSE <<threads[t].old[1], threads[t].value>>)
    /\ _tasksLock' = Released(t)
    /\ Goto(t, "set_emit")
    /\ UNCHANGED <<_showWorkInProgressOverlay, workStartTimestamp, draw,
                   seqVars>>

\* the value given makes the setter start the indicator
Activating(th) ==
    \/ th.op = "setTaskStatus" /\ Truthy(th.value)
    \/ th.op = "setTaskProgress" /\ th.value # None

\* self.tasksChanged(self._tasks), then the test of the value
SetEmit(t) ==
    /\ threads[t].pc = "set_emit"
    /\ Goto(t, IF Activating(threads[t]) THEN "start_test" ELSE "done")
    /\ UNCHANGED <<_tasks, _showWorkInProgressOverlay, workStartTimestamp,
                   draw, _tasksLock, seqVars>>

\* _startWorkInProgressOverlay: if not self._showWorkInProgressOverlay
StartTest(t) ==
    /\ threads[t].pc = "start_test"
    /\ Goto(t, IF ~_showWorkInProgressOverlay THEN "start_set" ELSE "done")
    /\ UNCHANGED <<_tasks, _showWorkInProgressOverlay, workStartTimestamp,
                   draw, _tasksLock, seqVars>>

StartSet(t) ==
    /\ threads[t].pc = "start_set"
    /\ _showWorkInProgressOverlay' = TRUE
    /\ workStartTimestamp' = Num(now)
    /\ Goto(t, "start_emit")
    /\ UNCHANGED <<_tasks, draw, _tasksLock, seqVars>>

\* self.wipOverlayEnabled(True)
StartEmit(t) ==
    /\ threads[t].pc = "start_emit"
    /\ Goto(t, "done")
    /\ UNCHANGED <<_tasks, _showWorkInProgressOverlay, workStartTimestamp,
                   draw, _tasksLock, seqVars>>

\* cancelTask: threadMgr.cancel_thread(taskName), then removeTask
Cancel(t) ==
    /\ threads[t].pc = "cancel"
    /\ Goto(t, "rm_enter")
    /\ UNCHANGED <<_tasks, _showWorkInProgressOverlay, workStartTimestamp,
                   draw, _tasksLock, seqVars>>

\* removeTask: the lock is taken and the entry is deleted, or the KeyError
\* is logged
RemoveEnter(t) ==
    /\ threads[t].pc = "rm_enter"
    /\ LockAvailable(t)
    /\ _tasksLock' = t
    /\ IF threads[t].name \in DOMAIN _tasks
       THEN /\ _tasks' = DictDel(_tasks, threads[t].name)
            /\ Goto(t, "rm_emit")
       ELSE /\ UNCHANGED _tasks
            /\ Goto(t, "rm_exit")
    /\ UNCHANGED <<_showWorkInProgressOverlay, workStartTimestamp, draw,
                   seqVars>>

\* self.tasksChanged(self._tasks), inside the with block
RemoveEmit(t) ==
    /\ threads[t].pc = "rm_emit"
    /\ Goto(t, "rm_exit")
    /\ UNCHANGED <<_tasks, _showWorkInProgressOverlay, workStartTimestamp,
                   draw, _tasksLock, seqVars>>

\* the end of the with block
RemoveExit(t) ==
    /\ threads[t].pc = "rm_exit"
    /\ _tasksLock' = Released(t)
    /\ Goto(t, "rm_test")
    /\ UNCHANGED <<_tasks, _showWorkInProgressOverlay, workStartTimestamp,
                   draw, seqVars>>

\* if self._tasks == {}
RemoveTest(t) ==
    /\ threads[t].pc = "rm_test"
    /\ Goto(t, IF DOMAIN _tasks = {} THEN "stop_set" ELSE "done")
    /\ UNCHANGED <<_tasks, _showWorkInProgressOverlay, workStartTimestamp,
                   draw, _tasksLock, seqVars>>

\* _stopWorkInProgressOverlay
StopSet(t) ==
    /\ threads[t].pc = "stop_set"
    /\ _showWorkInProgressOverlay' = FALSE
    /\ Goto(t, "stop_emit")
    /\ UNCHANGED <<_tasks, workStartTimestamp, draw, _tasksLock, seqVars>>

\* self.wipOverlayEnabled(False)
StopEmit(t) ==
    /\ threads[t].pc = "stop_emit"
    /\ Goto(t, "done")
    /\ UNCHANGED <<_tasks, _showWorkInProgressOverlay, workStartTimestamp,
                   draw, _tasksLock, seqVars>>

\* drawMasterOverlay: the banner, then the test of the indicator flag
DrawBanner(t) ==
    /\ threads[t].pc = "dw_banner"
    /\ draw' = _drawNotification(Machine, threads[t].env).draw
    /\ Goto(t, IF _showWorkInProgressOverlay THEN "dw_enter" ELSE "done")
    /\ UNCHANGED <<_tasks, _showWorkInProgressOverlay, workStartTimestamp,
                   _tasksLock, seqVars>>

\* mutant: the table is drawn without the lock
DrawEnter_WithoutLock(t) ==
    /\ threads[t].pc = "dw_enter"
    /\ IF TableDrawable(Machine, threads[t].env)
       THEN threads' = [threads EXCEPT
                ![t].count = Cardinality(DOMAIN _tasks),
                ![t].snap = _tasks,
                ![t].pc = "dw_item"]
       ELSE Goto(t, "dw_exit")
    /\ UNCHANGED <<_tasks, _showWorkInProgressOverlay, workStartTimestamp,
                   draw, _tasksLock, seqVars>>

\* drawWorkInProgressOverlay: the lock is taken, the table and the modules
\* are tested, the tasks are counted and the band is drawn
DrawEnter(t) ==
    /\ threads[t].pc = "dw_enter"
    /\ LockAvailable(t)
    /\ _tasksLock' = t
    /\ IF TableDrawable(Machine, threads[t].env)
       THEN threads' = [threads EXCEPT
                ![t].count = Cardinality(DOMAIN _tasks),
                ![t].snap = _tasks,
                ![t].pc = "dw_item"]
       ELSE Goto(t, "dw_exit")
    /\ UNCHANGED <<_tasks, _showWorkInProgressOverlay, workStartTimestamp,
                   draw, seqVars>>

\* one turn of the loop: the button and the text of the next task of the
\* table
DrawItem(t) ==
    /\ threads[t].pc = "dw_item"
    /\ \E n \in DOMAIN _tasks \ Range(threads[t].seen) :
           threads' = [threads EXCEPT ![t].seen = Append(@, n)]
    /\ UNCHANGED <<_tasks, _showWorkInProgressOverlay, workStartTimestamp,
                   draw, _tasksLock, seqVars>>

\* the loop is over, or nothing was to be drawn: the end of the with block
DrawExit(t) ==
    /\ \/ threads[t].pc = "dw_exit"
       \/ /\ threads[t].pc = "dw_item"
          /\ DOMAIN _tasks \subseteq Range(threads[t].seen)
    /\ _tasksLock' = Released(t)
    /\ Goto(t, "done")
    /\ UNCHANGED <<_tasks, _showWorkInProgressOverlay, workStartTimestamp,
                   draw, seqVars>>

NextThreads ==
    \E t \in Threads :
        \/ SetEnter(t)
        \/ SetWrite(t)
        \/ SetEmit(t)
        \/ StartTest(t)
        \/ StartSet(t)
        \/ StartEmit(t)
        \/ Cancel(t)
        \/ RemoveEnter(t)
        \/ RemoveEmit(t)
        \/ RemoveExit(t)
        \/ RemoveTest(t)
        \/ StopSet(t)
        \/ StopEmit(t)
        \/ DrawBanner(t)
        \/ DrawEnter(t)
        \/ DrawItem(t)
        \/ DrawExit(t)

SpecThreads == InitThreads /\ [][NextThreads]_vars

----------------------------------------------------------------------------
(* Subscribers that call back into the module: a subscriber of tasksChanged *)
(* or wipOverlayEnabled runs inside the emission, on the emitting thread,   *)
(* and may call one of the table operations before it returns.              *)

\* the statements that call the subscribers of a signal
EmitPcs == {"set_emit", "start_emit", "rm_emit", "stop_emit"}

\* the task the threads and the subscribers of this specification work on
SharedTask == Str(<<"t", "1">>)

\* the table operations on that task, with a value that starts the indicator
TableCalls ==
    {c \in ThreadCalls :
        /\ c.op # "drawMasterOverlay"
        /\ c.name = SharedTask
        /\ c.value \in {None, Str(<<"a">>), Num(0)}
        /\ c.op = "setTaskProgress" => c.value = Num(0)}

Frame(th) == [t |-> "frame", frame |-> th]

Returned == [t |-> "returned"]

InitReentrant ==
    /\ \E names \in SUBSET {SharedTask} :
           /\ _tasks = [n \in names |-> <<Str(<<"a">>), None>>]
           /\ _showWorkInProgressOverlay = (names # {})
           /\ workStartTimestamp = IF names # {} THEN Num(0) ELSE None
    /\ notificationText = Str(<<>>)
    /\ expirationTimestamp = 0
    /\ draw = FALSE
    /\ now = 0
    /\ trace = <<>>
    /\ raised = "none"
    /\ pre = [tasks |-> EmptyDict, show |-> FALSE, wst |-> None,
              text |-> Str(<<>>), expires |-> 0]
    /\ hist = [n \in TaskNames |-> NoHist]
    /\ allActivating = TRUE
    /\ lastRequest = None
    /\ threads \in [Threads -> TableCalls]
    /\ _tasksLock = "free"
    /\ outer = [t \in Threads |-> None]
    /\ SearchInit

frameVars == <<_tasks, _showWorkInProgressOverlay, workStartTimestamp,
               notificationText, expirationTimestamp, draw, now, trace,
               raised, pre, hist, allActivating, lastRequest, _tasksLock,
               searchVars>>

\* a subscriber called by the emission that thread t is about to make calls
\* a table operation
SubscriberCall(t) ==
    /\ threads[t].pc \in EmitPcs
    /\ outer[t] = None
    /\ \E c \in TableCalls : threads' = [threads EXCEPT ![t] = c]
    /\ outer' = [outer EXCEPT ![t] = Frame(threads[t])]
    /\ UNCHANGED frameVars

\* the call made by the subscriber returns: the emission goes on
SubscriberReturn(t) ==
    /\ threads[t].pc = "done"
    /\ outer[t].t = "frame"
    /\ threads' = [threads EXCEPT ![t] = outer[t].frame]
    /\ outer' = [outer EXCEPT ![t] = Returned]
    /\ UNCHANGED frameVars

\* the steps of thread t
ThreadStep(t) ==
    \/ SetEnter(t)
    \/ SetWrite(t)
    \/ SetEmit(t)
    \/ StartTest(t)
    \/ StartSet(t)
    \/ StartEmit(t)
    \/ Cancel(t)
    \/ RemoveEnter(t)
    \/ RemoveEmit(t)
    \/ RemoveExit(t)
    \/ RemoveTest(t)
    \/ StopSet(t)
    \/ StopEmit(t)
    \/ SubscriberCall(t)
    \/ SubscriberReturn(t)

NextReentrant == \E t \in Threads : ThreadStep(t)

\* every thread that can take a step is scheduled in the end
SpecReentrant ==
    /\ InitReentrant
    /\ [][NextReentrant]_vars
    /\ \A t \in Threads : WF_vars(ThreadStep(t))

----------------------------------------------------------------------------
(* Observations of the last operation *)

\* the arguments of the calls of a method made by the last operation
CallsOf(method) ==
    {trace[i][3] : i \in {j \in 1..Len(trace) :
         trace[j][1] = "call" /\ trace[j][2] = method}}

\* the payloads of a signal emitted by the last operation, in order
RECURSIVE PayloadsFrom(_, _)
PayloadsFrom(signal, i) ==
    IF i > Len(trace) THEN <<>>
    ELSE IF trace[i][1] = "emit" /\ trace[i][2] = signal
         THEN <<trace[i][3]>> \o PayloadsFrom(signal, i + 1)
         ELSE PayloadsFrom(signal, i + 1)

Payloads(signal) == PayloadsFrom(signal, 1)

\* the last operation has handled the given workInProgressOverlay directive
DirectiveHandled(keyword) ==
    \E a \in CallsOf("handleMessage") :
        /\ a.v[1] = Str(KwWorkInProgressOverlay)
        /\ a.v[2] = Str(KwMl)
        /\ a.v[3].t = "list"
        /\ a.v[3].v # <<>>
        /\ a.v[3].v[1] = Str(keyword)

\* the field a task has before its first update
PreField(n, i) == IF n \in DOMAIN pre.tasks THEN pre.tasks[n][i] ELSE None

----------------------------------------------------------------------------
(* Claims *)

\* C1: once setTaskStatus(n, s) and setTaskProgress(n, p) have both completed
\* since the last removal of n, in either order, the entry of n is (s, p) for
\* the last s and the last p; a setTaskStatus call leaves the progress of n as
\* it was (None for a new task) and a setTaskProgress call leaves its status.
C1_MergedPair ==
    /\ \A n \in TaskNames :
          (hist[n].status # Unset /\ hist[n].progress # Unset)
              => /\ n \in DOMAIN _tasks
                 /\ _tasks[n] = <<hist[n].status, hist[n].progress>>
    /\ \A a \in CallsOf("setTaskStatus") :
          _tasks[a.v[1]] = <<a.v[2], PreField(a.v[1], 2)>>
    /\ \A a \in CallsOf("setTaskProgress") :
          _tasks[a.v[1]] = <<PreField(a.v[1], 1), a.v[2]>>

C1_Witness ==
    \E n \in TaskNames :
        /\ hist[n].status = Str(<<"a">>)
        /\ hist[n].progress = Num(0)
        /\ n \in DOMAIN pre.tasks
        /\ pre.tasks[n] = <<None, Num(0)>>
        /\ CallsOf("setTaskStatus") = {List(<<n, Str(<<"a">>)>>)}

\* C2: a name is a key of the table iff a setTaskStatus or setTaskProgress
\* call for it has completed and no removeTask or cancelTask for it has
\* completed since.
C2_KeyIffCreated ==
    /\ DOMAIN _tasks \subseteq TaskNames
    /\ \A n \in TaskNames : (n \in DOMAIN _tasks) <=> hist[n].created

C2_Witness ==
    \E n \in TaskNames :
        /\ n \in DOMAIN pre.tasks
        /\ n \notin DOMAIN _tasks
        /\ DOMAIN _tasks # {}
        /\ CallsOf("cancelTask") = {n}

\* C3 as stated: the indicator flag is true iff the table is non-empty.
C3_FlagIffNonEmpty == _showWorkInProgressOverlay <=> (DOMAIN _tasks # {})

\* C3, amended: between operations, as long as every status set so far was
\* truthy, every progress set so far was not None and no workInProgressOverlay
\* enable/disable directive was handled, the flag is true iff the table is
\* non-empty.
C3_FlagIffNonEmptyWhileActivating ==
    allActivating => (_showWorkInProgressOverlay <=> (DOMAIN _tasks # {}))

C3_Witness ==
    /\ allActivating
    /\ _showWorkInProgressOverlay
    /\ pre.show
    /\ Cardinality(DOMAIN pre.tasks) = 2
    /\ Cardinality(DOMAIN _tasks) = 1
    /\ CallsOf("removeTask") # {}

\* C4: with the indicator Active, a removeTask(n) on a table whose only entry
\* is n leaves the indicator Idle and emits wipOverlayEnabled(False); a
\* removeTask(n) after which the table still holds a task leaves the indicator
\* Active and emits no wipOverlayEnabled event.
C4_RemoveStopsOnlyWhenEmpty ==
    \A n \in CallsOf("removeTask") :
        /\ (pre.show /\ DOMAIN pre.tasks = {n})
              => /\ ~_showWorkInProgressOverlay
                 /\ Payloads("wipOverlayEnabled") = <<Bool(FALSE)>>
        /\ (pre.show /\ raised = "none" /\ DOMAIN _tasks # {})
              => /\ _showWorkInProgressOverlay
                 /\ Payloads("wipOverlayEnabled") = <<>>

C4_Witness ==
    /\ pre.show
    /\ CallsOf("removeTask") # {}
    /\ DOMAIN pre.tasks = CallsOf("removeTask")
    /\ ~_showWorkInProgressOverlay

\* C5: from Idle, setTaskStatus(n, s) makes the indicator Active iff s is
\* truthy and setTaskProgress(n, p) makes it Active iff p is not None (0.0
\* activates); in both cases the entry of n holds the new value afterwards.
C5_ActivationCondition ==
    /\ \A a \in CallsOf("setTaskStatus") :
          ~pre.show => /\ _showWorkInProgressOverlay <=> Truthy(a.v[2])
                       /\ a.v[1] \in DOMAIN _tasks
                       /\ _tasks[a.v[1]][1] = a.v[2]
    /\ \A a \in CallsOf("setTaskProgress") :
          ~pre.show => /\ _showWorkInProgressOverlay <=> (a.v[2] # None)
                       /\ a.v[1] \in DOMAIN _tasks
                       /\ _tasks[a.v[1]][2] = a.v[2]

C5_Witness ==
    /\ ~pre.show
    /\ _showWorkInProgressOverlay
    /\ \E n \in TaskNames : CallsOf("setTaskProgress") = {List(<<n, Num(0)>>)}

\* C6 as stated: the indicator goes from Active to Idle only in a removeTask
\* call that makes the table become empty.
C6_IdleOnlyByEmptyingRemove ==
    (pre.show /\ ~_showWorkInProgressOverlay)
        => /\ CallsOf("removeTask") # {}
           /\ DOMAIN pre.tasks # {}
           /\ DOMAIN _tasks = {}

\* C6, amended: the indicator goes from Active to Idle only in a removeTask
\* call that finds the table empty after its removal attempt, or in the
\* handling of a workInProgressOverlay 'disable' directive.
C6_IdleOnlyByRemoveOrDisable ==
    (pre.show /\ ~_showWorkInProgressOverlay)
        => \/ CallsOf("removeTask") # {} /\ DOMAIN _tasks = {} /\ raised = "none"
           \/ DirectiveHandled(KwDisable)

C6_Witness ==
    /\ pre.show
    /\ ~_showWorkInProgressOverlay
    /\ DirectiveHandled(KwDisable)
    /\ DOMAIN _tasks # {}

\* C7: wipOverlayEnabled(True) is emitted and workStartTimestamp is set only
\* when the flag goes from false to true; a setTaskStatus, setTaskProgress or
\* 'enable' directive with the indicator already Active emits no
\* wipOverlayEnabled event and leaves the flag and the timestamp unchanged.
C7_EnableIdempotent ==
    /\ (\E i \in 1..Len(Payloads("wipOverlayEnabled")) :
            Payloads("wipOverlayEnabled")[i] = Bool(TRUE))
          => (~pre.show /\ _showWorkInProgressOverlay)
    /\ workStartTimestamp # pre.wst
          => (~pre.show /\ _showWorkInProgressOverlay)
    /\ (/\ pre.show
        /\ \/ CallsOf("setTaskStatus") # {}
           \/ CallsOf("setTaskProgress") # {}
           \/ DirectiveHandled(KwEnable))
          => /\ Payloads("wipOverlayEnabled") = <<>>
             /\ _showWorkInProgressOverlay
             /\ workStartTimestamp = pre.wst

C7_Witness ==
    /\ pre.show
    /\ CallsOf("_startWorkInProgressOverlay") # {}
    /\ workStartTimestamp = Num(0)
    /\ now > 0

\* C8: after a cancelTask(n) for a task name n, n is not a key of the table,
\* whether or not it was one before, and the call has not raised.
C8_CancelledIsAbsent ==
    \A n \in CallsOf("cancelTask") :
        n.t = "str" => (raised = "none" /\ n \notin DOMAIN _tasks)

C8_Witness ==
    \E n \in TaskNames :
        /\ CallsOf("cancelTask") = {n}
        /\ n \notin DOMAIN pre.tasks
        /\ DOMAIN pre.tasks # {}

\* C9: a removeTask(n) with n absent raises nothing, leaves the table and the
\* flag unchanged and emits neither tasksChanged nor wipOverlayEnabled, also
\* when the table is empty.
C9_RemoveAbsentIsNoOp ==
    \A n \in CallsOf("removeTask") :
        (n.t = "str" /\ n \notin DOMAIN pre.tasks)
            => /\ raised = "none"
               /\ _tasks = pre.tasks
               /\ _showWorkInProgressOverlay = pre.show
               /\ Payloads("tasksChanged") = <<>>
               /\ Payloads("wipOverlayEnabled") = <<>>

\* C10: tasksChanged is emitted exactly once by a setTaskStatus call, by a
\* setTaskProgress call and by a removeTask call that finds the name, and not
\* at all by a removeTask call that does not; its payload is the table with
\* the update or the removal applied.
C10_TasksChangedOnce ==
    /\ \A a \in CallsOf("setTaskStatus") :
          /\ Len(Payloads("tasksChanged")) = 1
          /\ Payloads("tasksChanged")[1].v[a.v[1]][1] = a.v[2]
          /\ Payloads("tasksChanged")[1] = Dict(_tasks)
    /\ \A a \in CallsOf("setTaskProgress") :
          /\ Len(Payloads("tasksChanged")) = 1
          /\ Payloads("tasksChanged")[1].v[a.v[1]][2] = a.v[2]
          /\ Payloads("tasksChanged")[1] = Dict(_tasks)
    /\ \A n \in CallsOf("removeTask") :
          IF n \in DOMAIN pre.tasks
          THEN /\ Len(Payloads("tasksChanged")) = 1
               /\ DOMAIN Payloads("tasksChanged")[1].v = DOMAIN pre.tasks \ {n}
               /\ Payloads("tasksChanged")[1] = Dict(_tasks)
          ELSE Payloads("tasksChanged") = <<>>

C10_Witness ==
    \E n \in TaskNames :
        /\ CallsOf("removeTask") = {n}
        /\ n \in DOMAIN pre.tasks
        /\ DOMAIN _tasks # {}
        /\ Len(Payloads("tasksChanged")) = 1

\* C14: a cancelTask(n) issues exactly one cancel request for n to the thread
\* manager and calls removeTask(n) right after it, in the same operation and
\* with nothing awaited in between; the request is issued also when n is not
\* in the table.
C14_CancelThenRemove ==
    \A n \in CallsOf("cancelTask") :
        \E i \in 1..(Len(trace) - 1) :
            /\ trace[i] = <<"ext", "cancel_thread", n>>
            /\ trace[i + 1] = <<"call", "removeTask", n>>
            /\ \A j \in 1..Len(trace) : trace[j][2] = "cancel_thread" => j = i
            /\ \A j \in 1..i : trace[j][2] # "removeTask"

C14_Witness ==
    \E n \in TaskNames :
        /\ CallsOf("cancelTask") = {n}
        /\ n \notin DOMAIN pre.tasks
        /\ \E i \in 1..Len(trace) : trace[i] = <<"ext", "cancel_thread", n>>
        /\ \E i \in 1..Len(trace) : trace[i] = <<"log", "error", n>>

\* the handlers the last handleMessage call has reached
ReachedStructured ==
    \E a \in CallsOf("handleMessage") :
        \/ raised = "ValueError"
        \/ \E i \in 1..Len(trace) :
              /\ trace[i][2] = "notify"
              /\ a.v[3].t = "list"
              /\ a.v[3].v # <<>>
              /\ trace[i][3].v[1] = a.v[3].v[1]

ReachedOverlay ==
    /\ CallsOf("handleMessage") # {}
    /\ Len(trace) >= 2
    /\ trace[2][2] \in {"_startWorkInProgressOverlay", "_stopWorkInProgressOverlay"}

ReachedCancel == CallsOf("handleMessage") # {} /\ CallsOf("cancelTask") # {}

ReachedFreeText ==
    \E a \in CallsOf("handleMessage") :
        \E i \in 1..Len(trace) :
            \/ trace[i] = <<"log", "error", a.v[1]>>
            \/ trace[i][2] = "exception"
            \/ /\ trace[i][2] = "notify"
               /\ trace[i][3].v[1] = Str(Split(a.v[1].v, "#")[1])

\* what the four handlers may reach for a message of the given branch
OnlyBranch(branch) ==
    /\ ReachedStructured => branch = 1
    /\ ReachedOverlay => branch = 2
    /\ ReachedCancel => branch = 3
    /\ ReachedFreeText => branch = 4
    /\ branch = 4 => ReachedFreeText

\* C17 as stated: the third handler is chosen by the message 'cancelTask'
\* alone, whatever the message type.
C17_DispatchByMessageOnly ==
    \A a \in CallsOf("handleMessage") :
        OnlyBranch(IF a.v[2] = Str(KwMl) /\ a.v[1] = Str(KwM) THEN 1
                   ELSE IF a.v[2] = Str(KwMl) /\ a.v[1] = Str(KwWorkInProgressOverlay) THEN 2
                   ELSE IF a.v[1] = Str(KwCancelTask) THEN 3
                   ELSE 4)

\* C17, amended: handleMessage gives each message to exactly one handler, the
\* first that matches of (1) type 'ml' and message 'm', (2) type 'ml' and
\* message 'workInProgressOverlay', (3) a truthy type and message
\* 'cancelTask', (4) free text otherwise; a message matching (1)-(3) does not
\* reach the free-text handler, also with an empty argument list.
C17_DispatchFirstMatch ==
    \A a \in CallsOf("handleMessage") :
        OnlyBranch(IF a.v[2] = Str(KwMl) /\ a.v[1] = Str(KwM) THEN 1
                   ELSE IF a.v[2] = Str(KwMl) /\ a.v[1] = Str(KwWorkInProgressOverlay) THEN 2
                   ELSE IF Truthy(a.v[2]) /\ a.v[1] = Str(KwCancelTask) THEN 3
                   ELSE 4)

C17_Witness ==
    /\ CallsOf("handleMessage") = {List(<<Str(KwCancelTask), Str(KwMl), List(<<>>)>>)}
    /\ Len(trace) = 1

\* the notification requests of the last operation, as <<text, timeout>>
Notified ==
    {trace[i][3].v : i \in {j \in 1..Len(trace) : trace[j][2] = "notify"}}

\* C18: a message with a malformed timeout, in the structured form and in the
\* inline form, does not raise and requests a notification of its text with
\* the default timeout.
C18_MalformedTimeoutDefaults ==
    \A a \in CallsOf("handleMessage") :
        /\ (/\ a.v[2] = Str(KwMl)
            /\ a.v[1] = Str(KwM)
            /\ Len(a.v[3].v) >= 2
            /\ ~FloatOk(a.v[3].v[2].v))
              => /\ raised = "none"
                 /\ <<a.v[3].v[1], Num(timeout)>> \in Notified
        /\ (/\ a.v[2] = None
            /\ Len(Split(a.v[1].v, "#")) = 2
            /\ ~IntOk(Split(a.v[1].v, "#")[2]))
              => /\ raised = "none"
                 /\ <<Str(Split(a.v[1].v, "#")[1]), Num(timeout)>> \in Notified

\* C19: a message with a text and no timeout, in the structured form with one
\* field and as free text without '#', requests a notification of the text
\* with the default timeout.
C19_NoTimeoutDefaults ==
    \A a \in CallsOf("handleMessage") :
        /\ (/\ a.v[2] = Str(KwMl)
            /\ a.v[1] = Str(KwM)
            /\ Len(a.v[3].v) = 1)
              => Notified = {<<a.v[3].v[1], Num(timeout)>>}
        /\ (/\ a.v[2] = None
            /\ Len(Split(a.v[1].v, "#")) = 1)
              => <<a.v[1], Num(timeout)>> \in Notified

----------------------------------------------------------------------------
(* Claims about the banner and the drawing: C15, C16, C20 *)

\* the positions of the trace at which the given collaborator request is made
ExtAt(what) ==
    {i \in 1..Len(trace) : trace[i][1] = "ext" /\ trace[i][2] = what}

\* the positions of the trace at which the given method is entered
CallAt(method) ==
    {i \in 1..Len(trace) : trace[i][1] = "call" /\ trace[i][2] = method}

\* the last operation is a draw call and it has drawn the banner text
BannerShown == ExtAt("showWrappedText") # {}

\* menu, projection and viewport are there in the given draw call
BannerDrawable(env) == env.menus /\ env.proj /\ Truthy(env.viewport)

\* C15 as stated: a notification requested at T with timeout m expires at
\* T + m, and a draw call at time t draws it if and only if t <= T + m.
C15_DrawnIffNotExpired ==
    lastRequest # None =>
        /\ expirationTimestamp = lastRequest.at + lastRequest.ms
        /\ CallsOf("drawMasterOverlay") # {} =>
               (BannerShown <=> now <= lastRequest.at + lastRequest.ms)

\* C15, amended: a notification requested at T with timeout m expires at
\* T + m; a draw call at time t for which menu, projection and viewport are
\* available draws it if and only if t <= T + m, and a draw call for which
\* one of them is missing draws nothing of it.
C15_DrawnIffNotExpiredAndDrawable ==
    lastRequest # None =>
        /\ expirationTimestamp = lastRequest.at + lastRequest.ms
        /\ \A env \in CallsOf("drawMasterOverlay") :
               /\ BannerShown <=> (/\ now <= lastRequest.at + lastRequest.ms
                                   /\ BannerDrawable(env))
               /\ ~BannerShown => ExtAt("rectangle") = {}

\* notify("hi", 1000) at T is on the screen at T + 999 ms
C15_Witness ==
    /\ lastRequest # None
    /\ lastRequest.text = Str(TextHi)
    /\ lastRequest.ms = 1000
    /\ now = lastRequest.at + 999
    /\ CallsOf("drawMasterOverlay") # {}
    /\ BannerShown

\* C16: after any sequence of notification requests the banner text and the
\* expiry are those of the most recent request, also when the expiry moves
\* back, and a draw call shows no other text than the most recent one.
C16_LatestWins ==
    lastRequest # None =>
        /\ notificationText = lastRequest.text
        /\ expirationTimestamp = lastRequest.at + lastRequest.ms
        /\ \A i \in ExtAt("showWrappedText") \cup ExtAt("measureWrappedText") :
               trace[i][3] = lastRequest.text

\* a request has replaced another text and moved the expiry back
C16_Witness ==
    /\ CallsOf("_startCustomNotificationCB") # {}
    /\ pre.text = Str(TextHi)
    /\ notificationText = Str(TextYo)
    /\ expirationTimestamp < pre.expires
    /\ now <= expirationTimestamp

\* the positions of the trace at which something of the task table is drawn
TableDrawnAt ==
    CallAt("drawWorkInProgressOverlay") \cup CallAt("drawCancelButton")
        \cup ExtAt("drawButton") \cup ExtAt("registerXYWH")
        \cup ExtAt("showText")
        \cup {i \in ExtAt("rectangle") : trace[i][3] # None}

\* C20: a drawMasterOverlay call attempts the banner before it draws
\* anything of the task table, and it draws the table only if the indicator
\* flag is set at that moment: with the flag clear there is no band, button,
\* label or hit-region, even for a non-empty table.
C20_BannerFirstTableIfActive ==
    CallsOf("drawMasterOverlay") # {} =>
        /\ Cardinality(CallAt("_drawNotification")) = 1
        /\ \A i \in CallAt("_drawNotification"), j \in TableDrawnAt : i < j
        /\ \A i \in ExtAt("showWrappedText"), j \in TableDrawnAt : i < j
        /\ TableDrawnAt # {} => pre.show
        /\ pre.show => CallAt("drawWorkInProgressOverlay") # {}

\* a draw call with everything available, a task in the table and the flag
\* clear
C20_Witness ==
    /\ CallsOf("drawMasterOverlay") = {Env(TRUE, TRUE, Viewport, TRUE)}
    /\ DOMAIN pre.tasks # {}
    /\ ~pre.show
    /\ TableDrawnAt = {}

----------------------------------------------------------------------------
(* Claims about the threads: C11, C12, C13 *)

\* C11 as stated: in setTaskStatus, setTaskProgress, removeTask and
\* cancelTask the thread that is about to emit tasksChanged or
\* wipOverlayEnabled does not hold the lock of the task table.
C11_NoLockAtEmission ==
    \A t \in Threads : threads[t].pc \in EmitPcs => _tasksLock # t

\* the two threads have completed setTaskStatus and setTaskProgress for the
\* same name
BothSettersDone(t, u) ==
    /\ threads[t].op = "setTaskStatus"
    /\ threads[u].op = "setTaskProgress"
    /\ threads[t].name = threads[u].name
    /\ threads[t].pc \notin {"set_enter", "set_write"}
    /\ threads[u].pc \notin {"set_enter", "set_write"}

\* C12: when setTaskStatus(n, s) and setTaskProgress(n, p) run on two
\* threads, then once both have written, the entry of n holds s and p:
\* neither update is lost, whatever the interleaving.
C12_NoLostUpdate ==
    \A t, u \in Threads :
        BothSettersDone(t, u) =>
            /\ threads[t].name \in DOMAIN _tasks
            /\ _tasks[threads[t].name] = <<threads[t].value, threads[u].value>>

\* both setters have returned; setTaskProgress found the empty status that
\* setTaskStatus had written, for a name the table did not hold before the
\* two calls
C12_Witness ==
    \E t, u \in Threads :
        /\ BothSettersDone(t, u)
        /\ threads[t].pc = "done"
        /\ threads[u].pc = "done"
        /\ threads[t].value = Str(<<>>)
        /\ threads[t].old = <<None, None>>
        /\ threads[u].old = <<Str(<<>>), None>>
        /\ threads[u].value = Num(0)

\* C13: from the test of the table to the end of the loop of one
\* drawWorkInProgressOverlay call no other thread changes the table: the
\* table stays the one that was counted for the band, and the tasks the loop
\* has gone through when it ends are exactly the tasks counted.
C13_ConsistentTableWhileDrawing ==
    \A t \in Threads :
        /\ threads[t].pc = "dw_item" =>
               /\ _tasksLock = t
               /\ _tasks = threads[t].snap
               /\ Len(threads[t].seen) <= threads[t].count
        /\ threads[t].op = "drawMasterOverlay" /\ threads[t].pc = "done" =>
               /\ Len(threads[t].seen) = threads[t].count
               /\ Range(threads[t].seen) = DOMAIN threads[t].snap

\* a thread is in the middle of the loop over two tasks while the other
\* thread waits to remove one of them
C13_Witness ==
    \E t, u \in Threads :
        /\ threads[t].pc = "dw_item"
        /\ threads[t].count = 2
        /\ Len(threads[t].seen) = 1
        /\ threads[u].op = "removeTask"
        /\ threads[u].pc = "rm_enter"
        /\ threads[u].name \in DOMAIN _tasks
        /\ threads[u].name \notin Range(threads[t].seen)

----------------------------------------------------------------------------
(* Claims C21 to C30 *)

\* C29: handling one free-text message "text#seconds" requests exactly one
\* notification, with the text before the '#' and seconds * 1000 ms.
C29_OneNotificationPerFreeText ==
    \A a \in CallsOf("handleMessage") :
        (/\ a.v[2] = None
         /\ Len(Split(a.v[1].v, "#")) = 2
         /\ IntOk(Split(a.v[1].v, "#")[2]))
            => /\ Cardinality(ExtAt("notify")) = 1
               /\ Notified = {<<Str(Split(a.v[1].v, "#")[1]),
                                Num(1000 * IntValue(Split(a.v[1].v, "#")[2]))>>}

\* the rectangles of the task table drawn by the last operation
Bands == {trace[i][3] : i \in {j \in ExtAt("rectangle") : trace[j][3] # None}}

\* the last operation is a draw call that finds the indicator set, k >= 1
\* tasks in the table and every module it needs
DrawsFullTable(env) ==
    /\ env \in CallsOf("drawMasterOverlay")
    /\ env.menus /\ env.proj /\ env.click /\ Truthy(env.viewport)
    /\ pre.show
    /\ DOMAIN pre.tasks # {}

\* C21: a draw of the table with k >= 1 tasks and every module present
\* makes one band of height k * 0.2 * h over the full width, and k cancel
\* buttons and k hit-regions, the i-th (from 0, in iteration order) at
\* sy + i * side with side = min(w, h) / 5, each hit-region with the
\* cancel-task message of the task of its turn.
C21_BandButtonsAndHitRegions ==
    \A env \in CallsOf("drawMasterOverlay") :
        DrawsFullTable(env) =>
            LET k == Cardinality(DOMAIN pre.tasks)
                sx == env.viewport.v[1].v
                sy == env.viewport.v[2].v
                w == env.viewport.v[3].v
                h == env.viewport.v[4].v
                names == ArgsFrom("call", "drawCancelButton", 1)
                buttons == ArgsFrom("ext", "drawButton", 1)
                regions == ArgsFrom("ext", "registerXYWH", 1)
            IN  /\ Cardinality(Bands) = 1
                /\ \A b \in Bands :
                       /\ b.v[1].v = 0 /\ b.v[2].v = 0 /\ b.v[3].v = w
                       /\ 10 * b.v[4].v = k * 2 * h
                /\ Len(names) = k /\ Len(buttons) = k /\ Len(regions) = k
                /\ Range(names) = DOMAIN pre.tasks
                /\ \A i \in 1..k :
                       /\ 5 * buttons[i].v[3].v = Min(w, h)
                       /\ buttons[i].v[4].v = buttons[i].v[3].v
                       /\ buttons[i].v[1].v = sx + w - buttons[i].v[3].v
                       /\ buttons[i].v[2].v = sy + (i - 1) * buttons[i].v[3].v
                       /\ regions[i].v[2] = buttons[i]
                       /\ regions[i].v[1] = Str(CancelTaskMessage \o names[i].v)

\* a draw of a table of two tasks with every module present
C21_Witness ==
    /\ DrawsFullTable(Env(TRUE, TRUE, Viewport, TRUE))
    /\ Cardinality(DOMAIN pre.tasks) = 2
    /\ Len(ArgsFrom("ext", "registerXYWH", 1)) = 2
    /\ Cardinality(Range(ArgsFrom("ext", "registerXYWH", 1))) = 2

\* the positions of the trace at which a collaborator is asked for anything
ExtAll == {i \in 1..Len(trace) : trace[i][1] = "ext"}

\* C23: a drawMasterOverlay call raises nothing whatever is missing; with
\* the viewport, the menu module or the projection module missing it draws
\* nothing and registers nothing, for the banner and for the table; with the
\* click handler missing it draws no cancel button and registers no
\* hit-region.
C23_MissingCollaboratorSkips ==
    \A env \in CallsOf("drawMasterOverlay") :
        /\ raised = "none"
        /\ (~Truthy(env.viewport) \/ ~env.menus \/ ~env.proj) => ExtAll = {}
        /\ ~env.click => ExtAt("drawButton") \cup ExtAt("registerXYWH") = {}

\* a draw call without viewport, while the banner has not expired, the
\* indicator is set and the table holds a task
C23_Witness ==
    /\ CallsOf("drawMasterOverlay") = {Env(TRUE, TRUE, None, TRUE)}
    /\ now <= expirationTimestamp
    /\ pre.show
    /\ DOMAIN pre.tasks # {}
    /\ CallAt("drawWorkInProgressOverlay") # {}
    /\ ExtAll = {}

\* C22: for every task n of the table at draw time, activating the
\* hit-region registered for n makes handleMessage call cancelTask with the
\* name n; afterwards n is not in the table and the entry of every other
\* task is as it was.
C22_HitRegionCancelsItsTask ==
    \A a \in CallsOf("activate") :
        LET n == a.v[1]
        IN  /\ n \in DOMAIN pre.tasks
            /\ Len(ArgsFrom("call", "handleMessage", 1)) = 1
            /\ ArgsFrom("call", "cancelTask", 1) = <<n>>
            /\ raised = "none"
            /\ DOMAIN _tasks = DOMAIN pre.tasks \ {n}
            /\ \A other \in DOMAIN _tasks : _tasks[other] = pre.tasks[other]

\* the hit-region of one of two tasks has been activated
C22_Witness ==
    \E a \in CallsOf("activate") :
        /\ Cardinality(DOMAIN pre.tasks) = 2
        /\ Cardinality(DOMAIN _tasks) = 1
        /\ a.v[1] \notin DOMAIN _tasks
        /\ CallsOf("cancelTask") = {a.v[1]}

\* C25: when setTaskStatus, setTaskProgress, removeTask and cancelTask run
\* one at a time and no workInProgressOverlay directive is sent, then after
\* every completed operation a set indicator flag implies a non-empty table.
C25_ActiveImpliesNonEmpty ==
    _showWorkInProgressOverlay => DOMAIN _tasks # {}

\* a removal has left one of two tasks in the table and the indicator set
C25_Witness ==
    /\ CallsOf("removeTask") # {}
    /\ Cardinality(DOMAIN pre.tasks) = 2
    /\ Cardinality(DOMAIN _tasks) = 1
    /\ pre.show
    /\ _showWorkInProgressOverlay

\* the task names given to the table operations of the last operation
Touched ==
    {a.v[1] : a \in CallsOf("setTaskStatus") \cup CallsOf("setTaskProgress")}
        \cup CallsOf("removeTask") \cup CallsOf("cancelTask")

\* C27: setTaskStatus(n, _), setTaskProgress(n, _), removeTask(n) and
\* cancelTask(n) add, remove and change no entry of a task other than n.
C27_OtherEntriesUntouched ==
    \A other \in (DOMAIN pre.tasks \cup DOMAIN _tasks) \ Touched :
        /\ other \in DOMAIN pre.tasks
        /\ other \in DOMAIN _tasks
        /\ _tasks[other] = pre.tasks[other]

\* the entry of one task has been changed next to the entry of another
C27_Witness ==
    \E n \in Touched, other \in DOMAIN _tasks :
        /\ Touched = {n}
        /\ other # n
        /\ n \in DOMAIN pre.tasks
        /\ n \in DOMAIN _tasks
        /\ _tasks[n] # pre.tasks[n]
        /\ _tasks[other] = <<Str(<<"a">>), Num(0)>>

\* C28: a setTaskStatus(n, s) or setTaskProgress(n, p) that arrives after
\* the removal of n makes a new entry for n whose other field is None, not
\* the value it had before the removal, and sets the indicator flag under
\* the same condition as for a new task: s truthy, p not None.
C28_RemovalForgetsHistory ==
    \A late \in CallsOf("lateEvent") :
        LET n == late.v[1]
        IN  /\ n \notin DOMAIN pre.tasks
            /\ n \in DOMAIN _tasks
            /\ \A c \in CallsOf("setTaskStatus") :
                   /\ _tasks[n] = <<c.v[2], None>>
                   /\ _showWorkInProgressOverlay <=> (pre.show \/ Truthy(c.v[2]))
                   /\ CallsOf("_startWorkInProgressOverlay") # {} <=> Truthy(c.v[2])
            /\ \A c \in CallsOf("setTaskProgress") :
                   /\ _tasks[n] = <<None, c.v[2]>>
                   /\ _showWorkInProgressOverlay <=> (pre.show \/ c.v[2] # None)
                   /\ CallsOf("_startWorkInProgressOverlay") # {} <=> c.v[2] # None

\* a status event for a task that was removed with a status and a progress,
\* the removal having emptied the table and cleared the indicator flag
C28_Witness ==
    \E late \in CallsOf("lateEvent") :
        /\ late.v[2] = Str(<<"a">>)
        /\ late.v[3] = Num(0)
        /\ CallsOf("setTaskStatus") = {List(<<late.v[1], Str(<<"a">>)>>)}
        /\ ~pre.show
        /\ _showWorkInProgressOverlay
        /\ _tasks[late.v[1]] = <<Str(<<"a">>), None>>

\* C26: under every interleaving of the operations of the threads, once all
\* of them have completed, the indicator flag is set only if the table is
\* not empty.
C26_ActiveImpliesNonEmptyWhenDone ==
    (\A t \in Threads : threads[t].pc = "done") =>
        (_showWorkInProgressOverlay => DOMAIN _tasks # {})

\* no call is on its way on any thread and the lock is free
AllReturned ==
    /\ \A t \in Threads : threads[t].pc = "done" /\ outer[t].t # "frame"
    /\ _tasksLock = "free"

\* C24: no table operation blocks forever: a call made by a subscriber from
\* inside an emission, also the emission that removeTask makes inside its
\* with block, gets the lock, and with several threads every call returns in
\* the end and the lock is free in the end.
C24_EveryCallReturns == <>[]AllReturned

\* a call made from the emission of removeTask is inside its own with block,
\* while the other thread waits for the lock
C24_Witness ==
    \E t, u \in Threads :
        /\ outer[t].t = "frame"
        /\ outer[t].frame.pc = "rm_emit"
        /\ threads[t].pc \in {"set_write", "rm_emit", "rm_exit"}
        /\ _tasksLock = t
        /\ u # t
        /\ threads[u].pc \in {"set_enter", "rm_enter"}

\* ---------------------------------------------------------------------
\* The Qt5 search binding: Search of gui_qt5.py.  search() runs on the
\* thread of the UI, the result callback on the search thread itself,
\* and the thread manager delivers status events at any moment.
\* ---------------------------------------------------------------------

\* everything outside Search
notificationVars ==
    <<_tasks, _showWorkInProgressOverlay, workStartTimestamp, notificationText,
      expirationTimestamp, draw, now, trace, raised, pre, hist, allActivating,
      lastRequest, threads, _tasksLock, outer>>

\* the search ids _getSearchFunction knows
SearchIds == {Str(<<"a","d","d","r","e","s","s">>), Str(<<"l","o","c","a","l">>)}

\* the thread states the thread manager reports
ThreadStatuses == {Str(<<"b","u","s","y">>)}

SEARCH_STATUS_PREFIX == <<"s","e","a","r","c","h",":","s","t","a","t","u","s",":">>

SEARCH_RESULT_PREFIX == <<"s","e","a","r","c","h",":","r","e","s","u","l","t",":">>

\* one pyotherside.send, with the thread the step was about
Send(id, event, data) == [t |-> "send", thread |-> id, event |-> Str(event), data |-> data]

\* search(), up to the return of the search function: the search thread
\* is started and its id is known, but not stored yet
SearchStart(id, searchId) ==
    /\ searches[id].call = "none"
    /\ \A other \in ThreadIds : searches[other].call # "started"
    /\ searches' = [searches EXCEPT ![id] =
                        [call |-> "started", searchId |-> searchId, thread |-> "running"]]
    /\ sent' = None
    /\ UNCHANGED <<_threadsInProgress, notificationVars>>

\* search(), the rest: the id is stored and returned
SearchStore(id) ==
    /\ searches[id].call = "started"
    /\ _threadsInProgress' = DictSet(_threadsInProgress, id, searches[id].searchId)
    /\ searches' = [searches EXCEPT ![id].call = "returned"]
    /\ sent' = None
    /\ UNCHANGED notificationVars

\* _searchCB, run by the search thread when it has its results
SearchCB(id) ==
    /\ searches[id].thread = "running"
    /\ sent' = Send(id, SEARCH_RESULT_PREFIX \o searches[id].searchId.v, List(<<>>))
    /\ _threadsInProgress' =
           IF id \in DOMAIN _threadsInProgress
           THEN DictDel(_threadsInProgress, id)
           ELSE _threadsInProgress
    /\ searches' = [searches EXCEPT ![id].thread = "finished"]
    /\ UNCHANGED notificationVars

\* cancelSearch, with an id that search() has returned
CancelSearch(id) ==
    /\ searches[id].call = "returned"
    /\ \A other \in ThreadIds : searches[other].call # "started"
    /\ searches[id].thread # "cancelled"
    /\ searches' = [searches EXCEPT ![id].thread =
                        IF @ = "running" THEN "cancelled" ELSE @]
    /\ _threadsInProgress' =
           IF id \in DOMAIN _threadsInProgress
           THEN DictDel(_threadsInProgress, id)
           ELSE _threadsInProgress
    /\ sent' = None
    /\ UNCHANGED notificationVars

\* _threadStatusCB
ThreadStatusCB(id, threadStatus) ==
    /\ LET recipient == DictGet(_threadsInProgress, id, None)
       IN  sent' = IF Truthy(recipient)
                   THEN Send(id, SEARCH_STATUS_PREFIX \o recipient.v, threadStatus)
                   ELSE None
    /\ UNCHANGED <<_threadsInProgress, searches, notificationVars>>

NextSearch ==
    \/ \E id \in ThreadIds, searchId \in SearchIds : SearchStart(id, searchId)
    \/ \E id \in ThreadIds : SearchStore(id)
    \/ \E id \in ThreadIds : SearchCB(id)
    \/ \E id \in ThreadIds : CancelSearch(id)
    \/ \E id \in ThreadIds, threadStatus \in ThreadStatuses : ThreadStatusCB(id, threadStatus)

SpecSearch == Init /\ [][NextSearch]_vars

\* the search is over for the UI: it was cancelled or its results were delivered
SearchOver(id) == searches[id].thread \in {"finished", "cancelled"}

\* the last step forwarded a status event of this thread
StatusForwarded(id) ==
    /\ sent # None
    /\ sent.thread = id
    /\ SubSeq(sent.event.v, 1, Len(SEARCH_STATUS_PREFIX)) = SEARCH_STATUS_PREFIX

\* C30: a status event is forwarded only for a thread id that is tracked,
\* and a search that was cancelled or whose result callback has run is
\* not tracked any more and gets no status event forwarded
C30_StatusOnlyForSearchInProgress ==
    \A id \in ThreadIds :
        /\ StatusForwarded(id) => id \in DOMAIN _threadsInProgress
        /\ SearchOver(id) =>
               /\ id \notin DOMAIN _threadsInProgress
               /\ ~StatusForwarded(id)

====
